---- MODULE Spec2Model ----
(***************************************************************************)
(* Texture objects of glium (src/texture/any.rs): creation (new_texture),  *)
(* mipmap views, sub-upload, compressed read-back, the internal-format     *)
(* cache and destruction, together with the part of the device context     *)
(* they read and write: driver version and extensions, the per-unit        *)
(* bound-texture shadow, the pixel-store alignments, and the driver's own  *)
(* texture names and bindings.                                             *)
(***************************************************************************)
EXTENDS Integers, Sequences, FiniteSets, TLC

VARIABLES
    version,                       \* ctxt.version, a Version(api, major, minor)
    extensions,                    \* ctxt.extensions, the flags this module reads
    active_texture,                \* ctxt.state.active_texture
    texture_units,                 \* ctxt.state.texture_units[u].texture
    pixel_store_unpack_alignment,  \* ctxt.state.pixel_store_unpack_alignment
    pixel_store_pack_alignment,    \* ctxt.state.pixel_store_pack_alignment
    textures,                      \* the live TextureAny objects, by their id
    gl_names,                      \* driver: texture names generated and not deleted
    gl_bound,                      \* driver: name bound at [unit][target]
    gl_pack_alignment,             \* driver: PACK_ALIGNMENT
    framebuffers,                  \* FramebuffersContainer: texture ids it has attachments of
    format_queries,                \* number of get_format driver queries made per texture
    last                           \* the operation that ran last: its result and driver calls

vars ==
    <<version, extensions, active_texture, texture_units, pixel_store_unpack_alignment,
      pixel_store_pack_alignment, textures, gl_names, gl_bound, gl_pack_alignment,
      framebuffers,
      format_queries, last>>

(***************************************************************************)
(* Bounds of the model.                                                    *)
(***************************************************************************)
MaxTex == 2

NumUnits == 2

MaxExtent == 3

MaxLevels == 3

MaxAddr == 8

(***************************************************************************)
(* Option<u32>: None is encoded as -1, Some(n) as n.                       *)
(***************************************************************************)
None == 0 - 1

unwrap_or(opt, dflt) ==
    IF opt = None THEN dflt ELSE opt

or(opt, other) ==
    IF opt = None THEN other ELSE opt

cmp_max(a, b) ==
    IF a >= b THEN a ELSE b

(***************************************************************************)
(* Dimensions, and its decomposition into (width, height, depth,           *)
(* array_size, samples).                                                   *)
(***************************************************************************)
Texture1d(w) ==
    [kind |-> "Texture1d", width |-> w, height |-> None, depth |-> None,
     array_size |-> None, samples |-> None]

Texture1dArray(w, a) ==
    [kind |-> "Texture1dArray", width |-> w, height |-> None, depth |-> None,
     array_size |-> a, samples |-> None]

Texture2d(w, h) ==
    [kind |-> "Texture2d", width |-> w, height |-> h, depth |-> None,
     array_size |-> None, samples |-> None]

Texture2dArray(w, h, a) ==
    [kind |-> "Texture2dArray", width |-> w, height |-> h, depth |-> None,
     array_size |-> a, samples |-> None]

Texture2dMultisample(w, h, s) ==
    [kind |-> "Texture2dMultisample", width |-> w, height |-> h, depth |-> None,
     array_size |-> None, samples |-> s]

Texture2dMultisampleArray(w, h, a, s) ==
    [kind |-> "Texture2dMultisampleArray", width |-> w, height |-> h, depth |-> None,
     array_size |-> a, samples |-> s]

Texture3d(w, h, d) ==
    [kind |-> "Texture3d", width |-> w, height |-> h, depth |-> d,
     array_size |-> None, samples |-> None]

get_width(ty) ==
    ty.width

get_height(ty) ==
    CASE ty.kind = "Texture1d" -> None
      [] ty.kind = "Texture1dArray" -> None
      [] OTHER -> ty.height

get_depth(ty) ==
    IF ty.kind = "Texture3d" THEN ty.depth ELSE None

get_array_size(ty) ==
    CASE ty.kind = "Texture1dArray" -> ty.array_size
      [] ty.kind = "Texture2dArray" -> ty.array_size
      [] ty.kind = "Texture2dMultisampleArray" -> ty.array_size
      [] OTHER -> None

get_samples(ty) ==
    CASE ty.kind = "Texture2dMultisample" -> ty.samples
      [] ty.kind = "Texture2dMultisampleArray" -> ty.samples
      [] OTHER -> None

get_bind_point(ty) ==
    CASE ty.kind = "Texture1d" -> "TEXTURE_1D"
      [] ty.kind = "Texture1dArray" -> "TEXTURE_1D_ARRAY"
      [] ty.kind = "Texture2d" -> "TEXTURE_2D"
      [] ty.kind = "Texture2dArray" -> "TEXTURE_2D_ARRAY"
      [] ty.kind = "Texture2dMultisample" -> "TEXTURE_2D_MULTISAMPLE"
      [] ty.kind = "Texture2dMultisampleArray" -> "TEXTURE_2D_MULTISAMPLE_ARRAY"
      [] ty.kind = "Texture3d" -> "TEXTURE_3D"

Targets ==
    {"TEXTURE_1D", "TEXTURE_1D_ARRAY", "TEXTURE_2D", "TEXTURE_2D_ARRAY",
     "TEXTURE_2D_MULTISAMPLE", "TEXTURE_2D_MULTISAMPLE_ARRAY", "TEXTURE_3D"}

(***************************************************************************)
(* Version(api, major, minor) and its partial order: versions of           *)
(* different APIs are incomparable, so both < and >= are false on them.    *)
(***************************************************************************)
Version(api, major, minor) ==
    <<api, major, minor>>

VersionGe(v, w) ==
    v[1] = w[1] /\ (v[2] > w[2] \/ (v[2] = w[2] /\ v[3] >= w[3]))

VersionLt(v, w) ==
    v[1] = w[1] /\ (v[2] < w[2] \/ (v[2] = w[2] /\ v[3] < w[3]))

(***************************************************************************)
(* u32::is_power_of_two: false on 0.                                       *)
(***************************************************************************)
RECURSIVE is_power_of_two(_)
is_power_of_two(n) ==
    IF n = 0 THEN FALSE
    ELSE IF n = 1 THEN TRUE
    ELSE n % 2 = 0 /\ is_power_of_two(n \div 2)

RECURSIVE pow2(_)
pow2(e) ==
    IF e = 0 THEN 1 ELSE 2 * pow2(e - 1)

RECURSIVE ilog2(_)
ilog2(n) ==
    IF n <= 1 THEN 0 ELSE 1 + ilog2(n \div 2)

(***************************************************************************)
(* MipmapsOption: no mipmaps, a fixed number of levels, or the full chain  *)
(* generated by the driver.                                                *)
(***************************************************************************)
NoMipmap ==
    [policy |-> "none", n |-> 0]

FixedMipmaps(n) ==
    [policy |-> "fixed", n |-> n]

AutoGeneratedMipmaps ==
    [policy |-> "auto", n |-> 0]

should_generate(mipmaps) ==
    mipmaps.policy = "auto"

num_levels(mipmaps, width, height, depth) ==
    CASE mipmaps.policy = "none" -> 1
      [] mipmaps.policy = "fixed" -> mipmaps.n
      [] mipmaps.policy = "auto" ->
            1 + ilog2(cmp_max(width, cmp_max(unwrap_or(height, 1), unwrap_or(depth, 1))))

(***************************************************************************)
(* TextureFormatRequest, as far as new_texture tells its values apart.     *)
(***************************************************************************)
DepthRequests ==
    {"AnyDepth", "Specific(DepthFormat)"}

DepthStencilRequests ==
    {"AnyDepthStencil", "Specific(DepthStencilFormat)"}

ColorRequests ==
    {"AnyFloatingPoint", "AnyCompressed"}

(***************************************************************************)
(* Initial data: absent, or a client format (compressed or not) with a     *)
(* slice whose byte length matches get_buffer_size or does not.            *)
(***************************************************************************)
NoData ==
    [present |-> FALSE, compressed |-> FALSE, size_ok |-> TRUE]

SomeData(compressed, size_ok) ==
    [present |-> TRUE, compressed |-> compressed, size_ok |-> size_ok]

(***************************************************************************)
(* Driver calls, as they are logged. Unused arguments keep NoCall's value. *)
(***************************************************************************)
NoCall ==
    [name |-> "", target |-> "", pname |-> "", param |-> "", id |-> 0,
     levels |-> 0, samples |-> 0, level |-> 0,
     xoffset |-> 0, yoffset |-> 0, zoffset |-> 0,
     width |-> 0, height |-> 0, depth |-> 0, data |-> "na", count |-> 0]

PixelStorei(pname, value) ==
    [NoCall EXCEPT !.name = "PixelStorei", !.pname = pname, !.id = value]

UnbindPixelUnpack ==
    [NoCall EXCEPT !.name = "unbind_pixel_unpack"]

UnbindPixelPack ==
    [NoCall EXCEPT !.name = "unbind_pixel_pack"]

GenTextures(id) ==
    [NoCall EXCEPT !.name = "GenTextures", !.id = id]

BindTexture(target, id) ==
    [NoCall EXCEPT !.name = "BindTexture", !.target = target, !.id = id]

DeleteTextures(id) ==
    [NoCall EXCEPT !.name = "DeleteTextures", !.id = id]

TexParameteri(target, pname, param) ==
    [NoCall EXCEPT !.name = "TexParameteri", !.target = target, !.pname = pname,
                   !.param = param]

TexStorage(name, target, levels, width, height, depth) ==
    [NoCall EXCEPT !.name = name, !.target = target, !.levels = levels,
                   !.width = width, !.height = height, !.depth = depth]

TexStorageMultisample(name, target, samples, width, height, depth) ==
    [NoCall EXCEPT !.name = name, !.target = target, !.samples = samples,
                   !.width = width, !.height = height, !.depth = depth]

TexImage(name, target, level, width, height, depth, client_format, data) ==
    [NoCall EXCEPT !.name = name, !.target = target, !.level = level,
                   !.width = width, !.height = height, !.depth = depth,
                   !.param = client_format, !.data = data]

TexSubImage(name, target, level, xoffset, yoffset, zoffset, width, height, depth, client_format, data) ==
    [NoCall EXCEPT !.name = name, !.target = target, !.level = level,
                   !.xoffset = xoffset, !.yoffset = yoffset, !.zoffset = zoffset,
                   !.width = width, !.height = height, !.depth = depth,
                   !.param = client_format, !.data = data]

GenerateMipmap(name, target) ==
    [NoCall EXCEPT !.name = name, !.target = target]

GetTexLevelParameteriv(target, level, pname) ==
    [NoCall EXCEPT !.name = "GetTexLevelParameteriv", !.target = target,
                   !.level = level, !.pname = pname]

GetCompressedTexImage(target, level) ==
    [NoCall EXCEPT !.name = "GetCompressedTexImage", !.target = target,
                   !.level = level, !.data = "ptr"]

\* count: the framebuffers that are purged.
PurgeTexture(id, count) ==
    [NoCall EXCEPT !.name = "purge_texture", !.id = id, !.count = count]

\* count: the texture units whose slot is reset.
ResetBindings(id, count) ==
    [NoCall EXCEPT !.name = "reset_bindings", !.id = id, !.count = count]

GetFormat(id) ==
    [NoCall EXCEPT !.name = "get_format", !.id = id]

OpsRead(id, layer, level, width, height) ==
    [NoCall EXCEPT !.name = "ops_read", !.id = id, !.zoffset = layer, !.level = level,
                   !.width = width, !.height = height]

(***************************************************************************)
(* The driver: what its texture names and bindings become when a call of   *)
(* the log reaches it. BindTexture binds at the active unit; deleting a    *)
(* name frees it and reverts every binding of it to 0.                     *)
(***************************************************************************)
gl_call(gl, unit, call) ==
    CASE call.name = "GenTextures" ->
            [gl EXCEPT !.names = @ \cup {call.id}]
      [] call.name = "BindTexture" ->
            [gl EXCEPT !.bound[unit][call.target] = call.id]
      [] call.name = "DeleteTextures" ->
            [gl EXCEPT !.names = @ \ {call.id},
                       !.bound = [u \in DOMAIN gl.bound |->
                                    [t \in Targets |->
                                       IF gl.bound[u][t] = call.id THEN 0
                                       ELSE gl.bound[u][t]]]]
      [] call.name = "PixelStorei" /\ call.pname = "PACK_ALIGNMENT" ->
            [gl EXCEPT !.pack_alignment = call.id]
      [] OTHER -> gl

RECURSIVE gl_calls(_, _, _)
gl_calls(gl, unit, calls) ==
    IF calls = <<>> THEN gl
    ELSE gl_calls(gl_call(gl, unit, Head(calls)), unit, Tail(calls))

(***************************************************************************)
(* new_texture, step by step.                                              *)
(***************************************************************************)
\* The check of lines 135-144 without the test of the extension.
npot_rejected_ignoring_extension(width, height, depth, array_size) ==
    /\ VersionLt(version, Version("Gl", 2, 0))
    /\ \/ ~is_power_of_two(width)
       \/ ~is_power_of_two(unwrap_or(height, 2))
       \/ ~is_power_of_two(unwrap_or(depth, 2))
       \/ ~is_power_of_two(unwrap_or(array_size, 2))

npot_rejected(width, height, depth, array_size) ==
    /\ VersionLt(version, Version("Gl", 2, 0))
    /\ ~extensions.gl_arb_texture_non_power_of_two
    /\ \/ ~is_power_of_two(width)
       \/ ~is_power_of_two(unwrap_or(height, 2))
       \/ ~is_power_of_two(unwrap_or(depth, 2))
       \/ ~is_power_of_two(unwrap_or(array_size, 2))

client_format_of(data, format) ==
    CASE data.present -> "client"
      [] format \in DepthRequests -> "DEPTH_COMPONENT"
      [] format \in DepthStencilRequests -> "DEPTH_STENCIL"
      [] OTHER -> "RGBA"

\* has_tex_storage without the test of storage_internal_format.is_some().
has_tex_storage_any_format(storage_internal_format) ==
    \/ VersionGe(version, Version("Gl", 4, 2))
    \/ extensions.gl_arb_texture_storage

has_tex_storage(storage_internal_format) ==
    /\ storage_internal_format
    /\ \/ VersionGe(version, Version("Gl", 4, 2))
       \/ extensions.gl_arb_texture_storage

zero_to_one(n) ==
    IF n = 0 THEN 1 ELSE n

unpack_alignment_calls ==
    IF pixel_store_unpack_alignment # 1
    THEN <<PixelStorei("UNPACK_ALIGNMENT", 1)>>
    ELSE <<>>

texture_parameters(ty, bind_point, has_mipmaps) ==
    <<TexParameteri(bind_point, "TEXTURE_WRAP_S", "REPEAT"),
      TexParameteri(bind_point, "TEXTURE_MAG_FILTER", "LINEAR")>>
    \o (IF ty.kind = "Texture1d" THEN <<>>
        ELSE <<TexParameteri(bind_point, "TEXTURE_WRAP_T", "REPEAT")>>)
    \o (IF ty.kind \in {"Texture1d", "Texture2d", "Texture2dMultisample"} THEN <<>>
        ELSE <<TexParameteri(bind_point, "TEXTURE_WRAP_R", "REPEAT")>>)
    \o (IF has_mipmaps
        THEN <<TexParameteri(bind_point, "TEXTURE_MIN_FILTER", "LINEAR_MIPMAP_LINEAR")>>
        ELSE <<TexParameteri(bind_point, "TEXTURE_MIN_FILTER", "LINEAR")>>)
    \o (IF ~has_mipmaps /\ (VersionGe(version, Version("Gl", 1, 2)) \/
                            VersionGe(version, Version("GlEs", 3, 0)))
        THEN <<TexParameteri(bind_point, "TEXTURE_BASE_LEVEL", "0"),
               TexParameteri(bind_point, "TEXTURE_MAX_LEVEL", "0")>>
        ELSE <<>>)

\* The allocation of lines 222-265 (TEXTURE_3D, TEXTURE_2D_ARRAY).
allocate_3d(bind_point, width0, height0, depth0, data_ptr, is_client_compressed, client_format, storage_internal_format, texture_levels) ==
    LET data_raw == IF width0 = 0 \/ height0 = 0 \/ depth0 = 0 THEN "null" ELSE data_ptr
        width == zero_to_one(width0)
        height == zero_to_one(height0)
        depth == zero_to_one(depth0)
    IN  IF has_tex_storage(storage_internal_format)
        THEN [panic |-> FALSE,
              calls |-> <<TexStorage("TexStorage3D", bind_point, texture_levels,
                                     width, height, depth)>>
                        \o (IF data_raw # "null"
                            THEN IF is_client_compressed
                                 THEN <<TexSubImage("CompressedTexSubImage3D", bind_point, 0,
                                                    0, 0, 0, width, height, depth,
                                                    "teximg", data_raw)>>
                                 ELSE <<TexSubImage("TexSubImage3D", bind_point, 0,
                                                    0, 0, 0, width, height, depth,
                                                    client_format, data_raw)>>
                            ELSE <<>>)]
        ELSE [panic |-> FALSE,
              calls |-> IF is_client_compressed /\ data_raw # "null"
                        THEN <<TexImage("CompressedTexImage3D", bind_point, 0,
                                        width, height, depth, "teximg", data_raw)>>
                        ELSE <<TexImage("TexImage3D", bind_point, 0,
                                        width, height, depth, client_format, data_raw)>>]

\* The allocation of lines 267-304 (TEXTURE_2D, TEXTURE_1D_ARRAY).
allocate_2d(bind_point, width0, height0, data_ptr, is_client_compressed, client_format, storage_internal_format, texture_levels) ==
    LET data_raw == IF width0 = 0 \/ height0 = 0 THEN "null" ELSE data_ptr
        width == zero_to_one(width0)
        height == zero_to_one(height0)
    IN  IF has_tex_storage(storage_internal_format)
        THEN [panic |-> FALSE,
              calls |-> <<TexStorage("TexStorage2D", bind_point, texture_levels,
                                     width, height, 0)>>
                        \o (IF data_raw # "null"
                            THEN IF is_client_compressed
                                 THEN <<TexSubImage("CompressedTexSubImage2D", bind_point, 0,
                                                    0, 0, 0, width, height, 0,
                                                    "teximg", data_raw)>>
                                 ELSE <<TexSubImage("TexSubImage2D", bind_point, 0,
                                                    0, 0, 0, width, height, 0,
                                                    client_format, data_raw)>>
                            ELSE <<>>)]
        ELSE [panic |-> FALSE,
              calls |-> IF is_client_compressed /\ data_raw # "null"
                        THEN <<TexImage("CompressedTexImage2D", bind_point, 0,
                                        width, height, 0, "teximg", data_raw)>>
                        ELSE <<TexImage("TexImage2D", bind_point, 0,
                                        width, height, 0, client_format, data_raw)>>]

\* The allocation of lines 366-398 (TEXTURE_1D).
allocate_1d(bind_point, width0, data_ptr, is_client_compressed, client_format, storage_internal_format, texture_levels) ==
    LET data_raw == IF width0 = 0 THEN "null" ELSE data_ptr
        width == zero_to_one(width0)
    IN  IF has_tex_storage(storage_internal_format)
        THEN [panic |-> FALSE,
              calls |-> <<TexStorage("TexStorage1D", bind_point, texture_levels,
                                     width, 0, 0)>>
                        \o (IF data_raw # "null"
                            THEN IF is_client_compressed
                                 THEN <<TexSubImage("CompressedTexSubImage1D", bind_point, 0,
                                                    0, 0, 0, width, 0, 0,
                                                    "teximg", data_raw)>>
                                 ELSE <<TexSubImage("TexSubImage1D", bind_point, 0,
                                                    0, 0, 0, width, 0, 0,
                                                    client_format, data_raw)>>
                            ELSE <<>>)]
        ELSE [panic |-> FALSE,
              calls |-> IF is_client_compressed /\ data_raw # "null"
                        THEN <<TexImage("CompressedTexImage1D", bind_point, 0,
                                        width, 0, 0, "teximg", data_raw)>>
                        ELSE <<TexImage("TexImage1D", bind_point, 0,
                                        width, 0, 0, client_format, data_raw)>>]

\* The allocation of lines 306-333 (TEXTURE_2D_MULTISAMPLE).
allocate_2d_multisample(width0, height0, samples, data_ptr, storage_internal_format) ==
    LET width == zero_to_one(width0)
        height == zero_to_one(height0)
    IN  IF data_ptr # "null"
        THEN [panic |-> TRUE, calls |-> <<>>]
        ELSE IF has_tex_storage(storage_internal_format)
        THEN [panic |-> FALSE,
              calls |-> <<TexStorageMultisample("TexStorage2DMultisample",
                                                "TEXTURE_2D_MULTISAMPLE", samples,
                                                width, height, 0)>>]
        ELSE IF VersionGe(version, Version("Gl", 3, 2)) \/
                extensions.gl_arb_texture_multisample
        THEN [panic |-> FALSE,
              calls |-> <<TexStorageMultisample("TexImage2DMultisample",
                                                "TEXTURE_2D_MULTISAMPLE", samples,
                                                width, height, 0)>>]
        ELSE [panic |-> TRUE, calls |-> <<>>]

\* The allocation of lines 335-364 (TEXTURE_2D_MULTISAMPLE_ARRAY): the array
\* size is passed as it is.
allocate_3d_multisample(width0, height0, array_size, samples, data_ptr, storage_internal_format) ==
    LET width == zero_to_one(width0)
        height == zero_to_one(height0)
    IN  IF data_ptr # "null"
        THEN [panic |-> TRUE, calls |-> <<>>]
        ELSE IF has_tex_storage(storage_internal_format)
        THEN [panic |-> FALSE,
              calls |-> <<TexStorageMultisample("TexStorage3DMultisample",
                                                "TEXTURE_2D_MULTISAMPLE_ARRAY", samples,
                                                width, height, array_size)>>]
        ELSE IF VersionGe(version, Version("Gl", 3, 2)) \/
                extensions.gl_arb_texture_multisample
        THEN [panic |-> FALSE,
              calls |-> <<TexStorageMultisample("TexImage3DMultisample",
                                                "TEXTURE_2D_MULTISAMPLE_ARRAY", samples,
                                                width, height, array_size)>>]
        ELSE [panic |-> TRUE, calls |-> <<>>]

allocate(ty, bind_point, data_ptr, is_client_compressed, client_format, storage_internal_format, texture_levels) ==
    LET width == ty.width
        height == get_height(ty)
        depth == get_depth(ty)
        array_size == get_array_size(ty)
        samples == get_samples(ty)
    IN  CASE bind_point \in {"TEXTURE_3D", "TEXTURE_2D_ARRAY"} ->
                allocate_3d(bind_point, width, height, or(depth, array_size), data_ptr,
                            is_client_compressed, client_format,
                            storage_internal_format, texture_levels)
          [] bind_point \in {"TEXTURE_2D", "TEXTURE_1D_ARRAY"} ->
                allocate_2d(bind_point, width, or(height, array_size), data_ptr,
                            is_client_compressed, client_format,
                            storage_internal_format, texture_levels)
          [] bind_point = "TEXTURE_2D_MULTISAMPLE" ->
                allocate_2d_multisample(width, height, samples, data_ptr,
                                        storage_internal_format)
          [] bind_point = "TEXTURE_2D_MULTISAMPLE_ARRAY" ->
                allocate_3d_multisample(width, height, array_size, samples, data_ptr,
                                        storage_internal_format)
          [] bind_point = "TEXTURE_1D" ->
                allocate_1d(bind_point, width, data_ptr, is_client_compressed,
                            client_format, storage_internal_format, texture_levels)

\* Lines 404-415: the mipmaps are generated whenever the policy asks for it.
generate_mipmaps_step(generate_mipmaps, bind_point) ==
    IF ~generate_mipmaps THEN [panic |-> FALSE, calls |-> <<>>]
    ELSE IF VersionGe(version, Version("Gl", 3, 0)) \/
            VersionGe(version, Version("GlEs", 2, 0))
    THEN [panic |-> FALSE, calls |-> <<GenerateMipmap("GenerateMipmap", bind_point)>>]
    ELSE IF extensions.gl_ext_framebuffer_object
    THEN [panic |-> FALSE, calls |-> <<GenerateMipmap("GenerateMipmapEXT", bind_point)>>]
    ELSE [panic |-> TRUE, calls |-> <<>>]

(***************************************************************************)
(* TextureAny. actual_format is "None" until get_internal_format has run,  *)
(* then "Ok" or "Err" (the inner Result).                                  *)
(***************************************************************************)
NoTexture ==
    [id |-> 0, requested_format |-> "", actual_format |-> "None",
     ty |-> Texture1d(0), levels |-> 0, generate_mipmaps |-> FALSE]

\* The checks of lines 109-159 that end the call before the context is made
\* current: "" when they all pass.
new_texture_checks(format, data, ty, negotiated, client_negotiated) ==
    IF data.present /\ ~data.size_ok THEN "panic"
    ELSE IF npot_rejected(ty.width, get_height(ty), get_depth(ty), get_array_size(ty))
    THEN "DimensionsNotSupported"
    ELSE IF negotiated = "Err" THEN "FormatNotSupported"
    ELSE IF data.present /\ client_negotiated = "Err" THEN "FormatNotSupported"
    ELSE ""

\* Lines 161-428: the driver calls, and the texture they build.
new_texture_driver(format, data, mipmaps, ty, negotiated, id) ==
    LET bind_point == get_bind_point(ty)
        generate_mipmaps == should_generate(mipmaps)
        texture_levels == num_levels(mipmaps, ty.width, get_height(ty), get_depth(ty))
        has_mipmaps == texture_levels > 1
        data_raw == IF data.present THEN "ptr" ELSE "null"
        prologue == unpack_alignment_calls
                    \o <<UnbindPixelUnpack, GenTextures(id), BindTexture(bind_point, id)>>
                    \o texture_parameters(ty, bind_point, has_mipmaps)
        alloc == allocate(ty, bind_point, data_raw, data.compressed,
                          client_format_of(data, format), negotiated = "WithStorage",
                          texture_levels)
        gen == IF alloc.panic THEN [panic |-> TRUE, calls |-> <<>>]
               ELSE generate_mipmaps_step(generate_mipmaps, bind_point)
        ok == ~alloc.panic /\ ~gen.panic
    IN  [result |-> IF ok THEN "Ok" ELSE "panic",
         calls |-> prologue \o alloc.calls \o gen.calls,
         texture_units |-> [texture_units EXCEPT ![active_texture] = id],
         pixel_store_unpack_alignment |-> 1,
         texture |-> IF ok
                     THEN [id |-> id, requested_format |-> format,
                           actual_format |-> "None", ty |-> ty,
                           levels |-> texture_levels,
                           generate_mipmaps |-> generate_mipmaps]
                     ELSE NoTexture]

\* new_texture with the checks of lines 135-159 made after the driver calls.
new_texture_checks_late(format, data, mipmaps, ty, negotiated, client_negotiated, id) ==
    LET early == new_texture_checks(format, data, ty, negotiated, client_negotiated)
        driver == new_texture_driver(format, data, mipmaps, ty, negotiated, id)
    IN  IF early # ""
        THEN [driver EXCEPT !.result = early, !.texture = NoTexture]
        ELSE driver

new_texture(format, data, mipmaps, ty, negotiated, client_negotiated, id) ==
    LET early == new_texture_checks(format, data, ty, negotiated, client_negotiated)
    IN  IF early # ""
        THEN [result |-> early, calls |-> <<>>, texture_units |-> texture_units,
              pixel_store_unpack_alignment |-> pixel_store_unpack_alignment,
              texture |-> NoTexture]
        ELSE new_texture_driver(format, data, mipmaps, ty, negotiated, id)

(***************************************************************************)
(* TextureAny::mipmap and the view it returns. 2u32.pow(level) is exact    *)
(* for the levels below 32, the only ones a level count lets through.      *)
(***************************************************************************)
NoView ==
    [some |-> FALSE, texture |-> 0, layer |-> 0, level |-> 0,
     width |-> 0, height |-> None, depth |-> None]

map_max1_div(opt, pow) ==
    IF opt = None THEN None ELSE cmp_max(1, opt \div pow)

\* mipmap without the clamp of the height to 1.
mipmap_unclamped_height(t, layer, level) ==
    IF layer >= unwrap_or(get_array_size(t.ty), 1) THEN NoView
    ELSE IF level >= t.levels THEN NoView
    ELSE LET pow == pow2(level)
         IN  [some |-> TRUE, texture |-> t.id, layer |-> layer, level |-> level,
              width |-> cmp_max(1, get_width(t.ty) \div pow),
              height |-> IF get_height(t.ty) = None THEN None
                         ELSE get_height(t.ty) \div pow,
              depth |-> map_max1_div(get_depth(t.ty), pow)]

mipmap(t, layer, level) ==
    IF layer >= unwrap_or(get_array_size(t.ty), 1) THEN NoView
    ELSE IF level >= t.levels THEN NoView
    ELSE LET pow == pow2(level)
         IN  [some |-> TRUE, texture |-> t.id, layer |-> layer, level |-> level,
              width |-> cmp_max(1, get_width(t.ty) \div pow),
              height |-> map_max1_div(get_height(t.ty), pow),
              depth |-> map_max1_div(get_depth(t.ty), pow)]

(***************************************************************************)
(* TextureAny::bind_to_current: the driver bind is skipped when the shadow *)
(* of the active unit already holds the texture's id.                      *)
(***************************************************************************)
\* bind_to_current that leaves the shadow of the active unit as it is.
bind_to_current_no_shadow(t) ==
    IF texture_units[active_texture] # t.id
    THEN [calls |-> <<BindTexture(get_bind_point(t.ty), t.id)>>,
          texture_units |-> texture_units]
    ELSE [calls |-> <<>>, texture_units |-> texture_units]

bind_to_current(t) ==
    IF texture_units[active_texture] # t.id
    THEN [calls |-> <<BindTexture(get_bind_point(t.ty), t.id)>>,
          texture_units |-> [texture_units EXCEPT ![active_texture] = t.id]]
    ELSE [calls |-> <<>>, texture_units |-> texture_units]

(***************************************************************************)
(* TextureAnyMipmap::upload_texture.                                       *)
(***************************************************************************)
\* regen_effective without the test of the client format.
regen_effective_compressed_too(t, regen_mipmaps, is_client_compressed) ==
    regen_mipmaps /\ t.levels >= 2 /\ t.generate_mipmaps

regen_effective(t, regen_mipmaps, is_client_compressed) ==
    regen_mipmaps /\ t.levels >= 2 /\ t.generate_mipmaps /\ ~is_client_compressed

upload_asserts(view, regen, x_offset, y_offset, z_offset, width, height, depth) ==
    /\ ~regen \/ view.level = 0
    /\ x_offset <= view.width
    /\ y_offset <= unwrap_or(view.height, 1)
    /\ z_offset <= unwrap_or(view.depth, 1)
    /\ x_offset + width <= view.width
    /\ y_offset + unwrap_or(height, 1) <= unwrap_or(view.height, 1)
    /\ z_offset + unwrap_or(depth, 1) <= unwrap_or(view.depth, 1)

\* Lines 537-567: the sub-image call, by bind point.
\* upload_sub_image with a sub-image call on the branches of lines 537-538 and
\* 562-567 as well.
upload_sub_image_every_shape(bind_point, level, x_offset, y_offset, z_offset, width, height, is_client_compressed) ==
    [panic |-> FALSE,
     calls |-> <<TexSubImage(IF bind_point \in {"TEXTURE_3D", "TEXTURE_2D_ARRAY"}
                             THEN "TexSubImage3D"
                             ELSE IF bind_point \in {"TEXTURE_2D", "TEXTURE_1D_ARRAY"}
                             THEN "TexSubImage2D" ELSE "TexSubImage1D",
                             bind_point, level, x_offset, y_offset, z_offset, width,
                             unwrap_or(height, 1), 0, "client", "ptr")>>]

upload_sub_image(bind_point, level, x_offset, y_offset, z_offset, width, height, is_client_compressed) ==
    IF bind_point \in {"TEXTURE_3D", "TEXTURE_2D_ARRAY"}
    THEN [panic |-> TRUE, calls |-> <<>>]
    ELSE IF bind_point \in {"TEXTURE_2D", "TEXTURE_1D_ARRAY"}
    THEN IF z_offset # 0 THEN [panic |-> TRUE, calls |-> <<>>]
         ELSE IF is_client_compressed
         THEN [panic |-> FALSE,
               calls |-> <<TexSubImage("CompressedTexSubImage2D", bind_point, level,
                                       x_offset, y_offset, 0, width,
                                       unwrap_or(height, 1), 0, "client", "ptr")>>]
         ELSE [panic |-> FALSE,
               calls |-> <<TexSubImage("TexSubImage2D", bind_point, level,
                                       x_offset, y_offset, 0, width,
                                       unwrap_or(height, 1), 0, "client", "ptr")>>]
    ELSE [panic |-> TRUE, calls |-> <<>>]

\* Lines 569-576.
upload_regenerate(regen, bind_point) ==
    IF ~regen THEN <<>>
    ELSE IF VersionGe(version, Version("Gl", 3, 0))
    THEN <<GenerateMipmap("GenerateMipmap", bind_point)>>
    ELSE <<GenerateMipmap("GenerateMipmapEXT", bind_point)>>

upload_texture(t, view, x_offset, y_offset, z_offset, is_client_compressed, size_ok, width, height, depth, regen_mipmaps, client_negotiated) ==
    LET regen == regen_effective(t, regen_mipmaps, is_client_compressed)
        untouched(result) ==
            [result |-> result, calls |-> <<>>, texture_units |-> texture_units,
             pixel_store_unpack_alignment |-> pixel_store_unpack_alignment]
    IN  IF ~upload_asserts(view, regen, x_offset, y_offset, z_offset, width, height, depth)
        THEN untouched("panic")
        ELSE IF ~size_ok THEN untouched("panic")
        ELSE IF client_negotiated = "Err" THEN untouched("Err")
        ELSE LET bind == bind_to_current(t)
                 bind_point == get_bind_point(t.ty)
                 sub == upload_sub_image(bind_point, view.level, x_offset, y_offset,
                                         z_offset, width, height, is_client_compressed)
             IN  [result |-> IF sub.panic THEN "panic" ELSE "Ok",
                  calls |-> unpack_alignment_calls \o <<UnbindPixelUnpack>>
                            \o bind.calls \o sub.calls
                            \o (IF sub.panic THEN <<>>
                                ELSE upload_regenerate(regen, bind_point)),
                  texture_units |-> bind.texture_units,
                  pixel_store_unpack_alignment |-> 1]

(***************************************************************************)
(* TextureAnyMipmap::download_compressed_data. is_compressed and           *)
(* known_format are the driver's answers, ptr the address of the buffer.   *)
(***************************************************************************)
\* pack_alignment that takes an address that is a multiple of 4 as aligned.
pack_alignment_4_as_aligned(ptr, current) ==
    IF ptr % 4 = 0 THEN current
    ELSE IF ptr % 2 = 0 /\ current > 2 THEN 2
    ELSE IF current # 1 THEN 1
    ELSE current

pack_alignment(ptr, current) ==
    IF ptr % 8 = 0 THEN current
    ELSE IF ptr % 4 = 0 /\ current # 4 THEN 4
    ELSE IF ptr % 2 = 0 /\ current > 2 THEN 2
    ELSE IF current # 1 THEN 1
    ELSE current

download_compressed_data(t, view, is_compressed, known_format, ptr) ==
    LET bind == bind_to_current(t)
        bind_point == get_bind_point(t.ty)
        alignment == pack_alignment(ptr, pixel_store_pack_alignment)
        query(pname) == GetTexLevelParameteriv(bind_point, view.level, pname)
    IN  IF ~is_compressed
        THEN [result |-> "None",
              calls |-> bind.calls \o <<query("TEXTURE_COMPRESSED")>>,
              texture_units |-> bind.texture_units,
              pixel_store_pack_alignment |-> pixel_store_pack_alignment]
        ELSE IF ~known_format
        THEN [result |-> "None",
              calls |-> bind.calls
                        \o <<query("TEXTURE_COMPRESSED"),
                             query("TEXTURE_COMPRESSED_IMAGE_SIZE"),
                             query("TEXTURE_INTERNAL_FORMAT")>>,
              texture_units |-> bind.texture_units,
              pixel_store_pack_alignment |-> pixel_store_pack_alignment]
        ELSE [result |-> "Some",
              calls |-> bind.calls
                        \o <<query("TEXTURE_COMPRESSED"),
                             query("TEXTURE_COMPRESSED_IMAGE_SIZE"),
                             query("TEXTURE_INTERNAL_FORMAT"),
                             UnbindPixelPack>>
                        \o (IF alignment # pixel_store_pack_alignment
                            THEN <<PixelStorei("PACK_ALIGNMENT", alignment)>>
                            ELSE <<>>)
                        \o <<GetCompressedTexImage(bind_point, view.level)>>,
              texture_units |-> bind.texture_units,
              pixel_store_pack_alignment |-> alignment]

(***************************************************************************)
(* TextureAny::get_internal_format: answer is what the driver query        *)
(* returns if it is made.                                                  *)
(***************************************************************************)
\* get_internal_format that keeps no answer.
get_internal_format_uncached(t, answer) ==
    [result |-> answer, calls |-> <<GetFormat(t.id)>>, actual_format |-> "None"]

get_internal_format(t, answer) ==
    IF t.actual_format # "None"
    THEN [result |-> t.actual_format, calls |-> <<>>, actual_format |-> t.actual_format]
    ELSE [result |-> answer, calls |-> <<GetFormat(t.id)>>, actual_format |-> answer]

(***************************************************************************)
(* Drop for TextureAny.                                                    *)
(***************************************************************************)
\* The loop of the drop, left after the slot of the active unit.
drop_reset_bindings_active_only(units, id) ==
    [u \in DOMAIN units |-> IF u = active_texture /\ units[u] = id THEN 0 ELSE units[u]]

drop_reset_bindings(units, id) ==
    [u \in DOMAIN units |-> IF units[u] = id THEN 0 ELSE units[u]]

purge_texture(fbs, id) ==
    fbs \ {id}

drop(t) ==
    [calls |-> <<PurgeTexture(t.id, Cardinality(framebuffers \cap {t.id})),
                 ResetBindings(t.id, Cardinality({u \in DOMAIN texture_units :
                                                    texture_units[u] = t.id})),
                 DeleteTextures(t.id)>>,
     framebuffers |-> purge_texture(framebuffers, t.id),
     texture_units |-> drop_reset_bindings(texture_units, t.id)]

(***************************************************************************)
(* The state machine. last records the operation that ran last: its name,  *)
(* its arguments, its result and the driver calls it issued, in order.     *)
(***************************************************************************)
Units ==
    0 .. (NumUnits - 1)

Names ==
    1 .. MaxTex

NoArgs ==
    [id |-> 0, ty |-> Texture1d(0), format |-> "", data |-> NoData,
     mipmaps |-> NoMipmap, negotiated |-> "", layer |-> 0, level |-> 0,
     view |-> NoView, regen_mipmaps |-> FALSE, is_client_compressed |-> FALSE,
     ptr |-> 0, x_offset |-> 0, y_offset |-> 0, z_offset |-> 0, width |-> 0,
     height |-> None, depth |-> None, size_ok |-> TRUE, client_negotiated |-> ""]

Live(id) ==
    textures[id] # NoTexture

\* The driver's texture state after the calls of an operation.
DriverAfter(calls) ==
    \E gl \in {gl_calls([names |-> gl_names, bound |-> gl_bound,
                          pack_alignment |-> gl_pack_alignment], active_texture, calls)} :
        /\ gl_names' = gl.names
        /\ gl_bound' = gl.bound
        /\ gl_pack_alignment' = gl.pack_alignment

\* A context on which the rest of the library has set the pack alignment.
InitContextPacked(v, e, pack) ==
    /\ version = v
    /\ extensions = e
    /\ active_texture = 0
    /\ texture_units = [u \in Units |-> 0]
    /\ pixel_store_unpack_alignment = 4
    /\ pixel_store_pack_alignment = pack
    /\ gl_pack_alignment = pack
    /\ textures = [id \in Names |-> NoTexture]
    /\ gl_names = {}
    /\ gl_bound = [u \in Units |-> [t \in Targets |-> 0]]
    /\ framebuffers = {}
    /\ format_queries = [id \in Names |-> 0]
    /\ last = [op |-> "init", args |-> NoArgs, result |-> "", calls |-> <<>>]

InitContext(v, e) ==
    InitContextPacked(v, e, 4)

\* new_texture. id is the name GenTextures returns: one that is not in use.
NewTexture(format, data, mipmaps, ty, negotiated, client_negotiated, id) ==
        \E r \in {new_texture(format, data, mipmaps, ty, negotiated, client_negotiated, id)} :
            /\ r.calls # <<>> => id \notin gl_names
            /\ DriverAfter(r.calls)
            /\ texture_units' = r.texture_units
            /\ pixel_store_unpack_alignment' = r.pixel_store_unpack_alignment
            /\ textures' = IF r.result = "Ok"
                           THEN [textures EXCEPT ![id] = r.texture]
                           ELSE textures
            /\ format_queries' = IF r.result = "Ok"
                                 THEN [format_queries EXCEPT ![id] = 0]
                                 ELSE format_queries
            /\ last' = [op |-> "new_texture",
                        args |-> [NoArgs EXCEPT !.id = r.texture.id, !.ty = ty,
                                                !.format = format, !.data = data,
                                                !.mipmaps = mipmaps,
                                                !.negotiated = negotiated],
                        result |-> r.result, calls |-> r.calls]
            /\ UNCHANGED <<version, extensions, active_texture,
                           pixel_store_pack_alignment, framebuffers>>

\* TextureAny::mipmap.
Mipmap(id, layer, level) ==
    /\ Live(id)
    /\ \E v \in {mipmap(textures[id], layer, level)} :
           last' = [op |-> "mipmap",
                    args |-> [NoArgs EXCEPT !.id = id, !.layer = layer, !.level = level,
                                            !.view = v],
                    result |-> IF v.some THEN "Some" ELSE "None", calls |-> <<>>]
    /\ UNCHANGED <<version, extensions, active_texture, texture_units,
                   pixel_store_unpack_alignment, pixel_store_pack_alignment, textures,
                   gl_names, gl_bound, gl_pack_alignment, framebuffers, format_queries>>

\* upload_texture on the view mipmap(layer, level) of a live texture.
UploadTexture(id, layer, level, x_offset, y_offset, z_offset, is_client_compressed, size_ok, width, height, depth, regen_mipmaps, client_negotiated) ==
    /\ Live(id)
    /\ mipmap(textures[id], layer, level).some
    /\ \E view \in {mipmap(textures[id], layer, level)} :
       \E r \in {upload_texture(textures[id], view, x_offset, y_offset, z_offset,
                                 is_client_compressed, size_ok, width, height, depth,
                                 regen_mipmaps, client_negotiated)} :
           /\ DriverAfter(r.calls)
           /\ texture_units' = r.texture_units
           /\ pixel_store_unpack_alignment' = r.pixel_store_unpack_alignment
           /\ last' = [op |-> "upload_texture",
                       args |-> [NoArgs EXCEPT !.id = id, !.layer = layer,
                                               !.level = level, !.view = view,
                                               !.regen_mipmaps = regen_mipmaps,
                                               !.is_client_compressed =
                                                   is_client_compressed,
                                               !.x_offset = x_offset,
                                               !.y_offset = y_offset,
                                               !.z_offset = z_offset,
                                               !.width = width, !.height = height,
                                               !.depth = depth, !.size_ok = size_ok,
                                               !.client_negotiated = client_negotiated],
                       result |-> r.result, calls |-> r.calls]
    /\ UNCHANGED <<version, extensions, active_texture, pixel_store_pack_alignment,
                   textures, framebuffers, format_queries>>

\* download_compressed_data on the view mipmap(layer, level) of a live texture.
DownloadCompressedData(id, layer, level, is_compressed, known_format, ptr) ==
    /\ Live(id)
    /\ mipmap(textures[id], layer, level).some
    /\ \E view \in {mipmap(textures[id], layer, level)} :
       \E r \in {download_compressed_data(textures[id], view, is_compressed,
                                           known_format, ptr)} :
           /\ DriverAfter(r.calls)
           /\ texture_units' = r.texture_units
           /\ pixel_store_pack_alignment' = r.pixel_store_pack_alignment
           /\ last' = [op |-> "download_compressed_data",
                       args |-> [NoArgs EXCEPT !.id = id, !.layer = layer,
                                               !.level = level, !.view = view,
                                               !.ptr = ptr],
                       result |-> r.result, calls |-> r.calls]
    /\ UNCHANGED <<version, extensions, active_texture, pixel_store_unpack_alignment,
                   textures, framebuffers, format_queries>>

\* get_internal_format.
GetInternalFormat(id, answer) ==
    /\ Live(id)
    /\ \E r \in {get_internal_format(textures[id], answer)} :
           /\ textures' = [textures EXCEPT ![id].actual_format = r.actual_format]
           /\ format_queries' = [format_queries EXCEPT ![id] = @ + Len(r.calls)]
           /\ last' = [op |-> "get_internal_format", args |-> [NoArgs EXCEPT !.id = id],
                       result |-> r.result, calls |-> r.calls]
    /\ UNCHANGED <<version, extensions, active_texture, texture_units,
                   pixel_store_unpack_alignment, pixel_store_pack_alignment,
                   gl_names, gl_bound, gl_pack_alignment, framebuffers>>

\* read: the slice is staged as a framebuffer attachment, which the
\* framebuffer container keeps.
Read(id, layer, level) ==
    /\ Live(id)
    /\ mipmap(textures[id], layer, level).some
    /\ \E view \in {mipmap(textures[id], layer, level)} :
           last' = [op |-> "read",
                    args |-> [NoArgs EXCEPT !.id = id, !.layer = layer, !.level = level,
                                            !.view = view],
                    result |-> "Ok",
                    calls |-> <<OpsRead(id, layer, level, view.width,
                                        unwrap_or(view.height, 1))>>]
    /\ framebuffers' = framebuffers \cup {id}
    /\ UNCHANGED <<version, extensions, active_texture, texture_units,
                   pixel_store_unpack_alignment, pixel_store_pack_alignment, textures,
                   gl_names, gl_bound, gl_pack_alignment, format_queries>>

\* read_to_pixel_buffer: as read, into a pixel buffer of width * height * 4
\* bytes.
ReadToPixelBuffer(id, layer, level) ==
    /\ Live(id)
    /\ mipmap(textures[id], layer, level).some
    /\ \E view \in {mipmap(textures[id], layer, level)} :
           last' = [op |-> "read_to_pixel_buffer",
                    args |-> [NoArgs EXCEPT !.id = id, !.layer = layer, !.level = level,
                                            !.view = view,
                                            !.ptr = view.width * unwrap_or(view.height, 1) * 4],
                    result |-> "Ok",
                    calls |-> <<OpsRead(id, layer, level, view.width,
                                        unwrap_or(view.height, 1))>>]
    /\ framebuffers' = framebuffers \cup {id}
    /\ UNCHANGED <<version, extensions, active_texture, texture_units,
                   pixel_store_unpack_alignment, pixel_store_pack_alignment, textures,
                   gl_names, gl_bound, gl_pack_alignment, format_queries>>

\* Drop for TextureAny.
Drop(id) ==
    /\ Live(id)
    /\ \E r \in {drop(textures[id])} :
           /\ DriverAfter(r.calls)
           /\ framebuffers' = r.framebuffers
           /\ texture_units' = r.texture_units
           /\ last' = [op |-> "drop", args |-> [NoArgs EXCEPT !.id = id],
                       result |-> "Ok", calls |-> r.calls]
    /\ textures' = [textures EXCEPT ![id] = NoTexture]
    /\ UNCHANGED <<version, extensions, active_texture, pixel_store_unpack_alignment,
                   pixel_store_pack_alignment, format_queries>>

\* The rest of the library selects another texture unit.
ActiveTexture(unit) ==
    /\ unit # active_texture
    /\ active_texture' = unit
    /\ last' = [op |-> "active_texture", args |-> NoArgs, result |-> "Ok",
                calls |-> <<>>]
    /\ UNCHANGED <<version, extensions, texture_units, pixel_store_unpack_alignment,
                   pixel_store_pack_alignment, textures, gl_names, gl_bound,
                   gl_pack_alignment,
                   framebuffers, format_queries>>

(***************************************************************************)
(* The inputs the operations are run on.                                   *)
(***************************************************************************)
Extents ==
    0 .. MaxExtent

SampleCounts ==
    {4}

AllDimensions ==
    {Texture1d(w) : w \in Extents}
    \cup {Texture1dArray(w, a) : w \in Extents, a \in Extents}
    \cup {Texture2d(w, h) : w \in Extents, h \in Extents}
    \cup {Texture2dArray(w, h, a) : w \in Extents, h \in Extents, a \in Extents}
    \cup {Texture2dMultisample(w, h, s) : w \in Extents, h \in Extents, s \in SampleCounts}
    \cup {Texture2dMultisampleArray(w, h, a, s) :
            w \in Extents, h \in Extents, a \in Extents, s \in SampleCounts}
    \cup {Texture3d(w, h, d) : w \in Extents, h \in Extents, d \in Extents}

FormatRequests ==
    DepthRequests \cup DepthStencilRequests \cup ColorRequests

AllData ==
    {NoData} \cup {SomeData(c, ok) : c \in BOOLEAN, ok \in BOOLEAN}

AllMipmaps ==
    {NoMipmap, AutoGeneratedMipmaps} \cup {FixedMipmaps(n) : n \in 1 .. MaxLevels}

Negotiations ==
    {"Err", "TexImageOnly", "WithStorage"}

ClientNegotiations ==
    {"Err", "Ok"}

Versions ==
    {Version("Gl", 1, 1), Version("Gl", 2, 0), Version("Gl", 3, 2), Version("Gl", 4, 2),
     Version("GlEs", 2, 0), Version("GlEs", 3, 0)}

ExtensionSets ==
    [gl_arb_texture_non_power_of_two : BOOLEAN, gl_arb_texture_storage : BOOLEAN,
     gl_arb_texture_multisample : BOOLEAN, gl_ext_framebuffer_object : BOOLEAN]

NoExtensions ==
    [gl_arb_texture_non_power_of_two |-> FALSE, gl_arb_texture_storage |-> FALSE,
     gl_arb_texture_multisample |-> FALSE, gl_ext_framebuffer_object |-> FALSE]

\* The extension sets that tell contexts of version v apart: a flag that
\* new_texture only reads after a version test which v already passes is
\* left unset.
ExtensionSetsOf(v) ==
    {e \in ExtensionSets :
        /\ e.gl_arb_texture_non_power_of_two => VersionLt(v, Version("Gl", 2, 0))
        /\ e.gl_arb_texture_storage => ~VersionGe(v, Version("Gl", 4, 2))
        /\ e.gl_arb_texture_multisample => ~VersionGe(v, Version("Gl", 3, 2))
        /\ e.gl_ext_framebuffer_object =>
              ~(VersionGe(v, Version("Gl", 3, 0)) \/ VersionGe(v, Version("GlEs", 2, 0)))}

\* One texture of every shape, with every extent 2.
SampleDimensions ==
    {Texture1d(2), Texture1dArray(2, 2), Texture2d(2, 2), Texture2dArray(2, 2, 2),
     Texture2dMultisample(2, 2, 4), Texture2dMultisampleArray(2, 2, 2, 4),
     Texture3d(2, 2, 2)}

(***************************************************************************)
(* SpecCreate: new_texture as the first operation on a context, on every   *)
(* context and for every shape of the bounded sets. The format request     *)
(* varies over the sample shapes, the shape under the colour request.      *)
(***************************************************************************)
InitCreate ==
    \E v \in Versions : \E e \in ExtensionSetsOf(v) : InitContext(v, e)

CreateRequests ==
    {<<"AnyFloatingPoint", ty>> : ty \in AllDimensions}
    \cup {<<f, ty>> : f \in FormatRequests, ty \in SampleDimensions}

CreateMipmaps ==
    {NoMipmap, AutoGeneratedMipmaps, FixedMipmaps(MaxLevels)}

\* client_format_to_glenum is only called when there is data.
ClientNegotiationsOf(data) ==
    IF data.present /\ data.size_ok THEN ClientNegotiations ELSE {"Ok"}

CreateFirst ==
    /\ last.op = "init"
    /\ \E req \in CreateRequests, data \in AllData, mipmaps \in CreateMipmaps,
          negotiated \in Negotiations :
         \E client_negotiated \in ClientNegotiationsOf(data) :
            NewTexture(req[1], data, mipmaps, req[2], negotiated, client_negotiated, 1)

NextCreate ==
    CreateFirst

SpecCreate ==
    InitCreate /\ [][NextCreate]_vars

(***************************************************************************)
(* SpecMipmap: a texture of every shape and level count, and every view    *)
(* of it that mipmap() is asked for.                                       *)
(***************************************************************************)
InitMipmap ==
    InitContext(Version("Gl", 4, 2), NoExtensions)

CreateShape ==
    /\ gl_names = {}
    /\ \E ty \in AllDimensions, mipmaps \in AllMipmaps :
            NewTexture("AnyFloatingPoint", NoData, mipmaps, ty, "WithStorage", "Ok", 1)

MipmapAny ==
    \E id \in Names, layer \in 0 .. MaxExtent, level \in 0 .. MaxLevels :
        Mipmap(id, layer, level)

NextMipmap ==
    \/ CreateShape
    \/ MipmapAny

SpecMipmap ==
    InitMipmap /\ [][NextMipmap]_vars

(***************************************************************************)
(* Spec: several textures of different bind points live at once on a       *)
(* context with several texture units; they are created, bound by uploads  *)
(* and downloads, and dropped in any order, while the active unit changes. *)
(***************************************************************************)
LifeContexts ==
    {<<Version("Gl", 3, 2), NoExtensions>>}

LifeDimensions ==
    {Texture2d(2, 2), Texture3d(2, 2, 2)}

Init ==
    \E c \in LifeContexts : InitContext(c[1], c[2])

Create ==
    \E id \in Names, ty \in LifeDimensions :
        NewTexture("AnyFloatingPoint", NoData, NoMipmap, ty, "TexImageOnly", "Ok", id)

Upload ==
    \E id \in Names :
        UploadTexture(id, 0, 0, 0, 0, 0, FALSE, TRUE, 1, None, None, FALSE, "Ok")

Download ==
    \E id \in Names :
        DownloadCompressedData(id, 0, 0, FALSE, TRUE, MaxAddr)

DropAny ==
    \E id \in Names : Drop(id)

SelectUnit ==
    \E unit \in Units : ActiveTexture(unit)

Next ==
    \/ Create
    \/ Upload
    \/ Download
    \/ DropAny
    \/ SelectUnit

Spec ==
    Init /\ [][Next]_vars

(***************************************************************************)
(* SpecDrop: as Spec, with the textures also read through framebuffer      *)
(* attachments before they are dropped.                                    *)
(***************************************************************************)
CreateFlat ==
    \E id \in Names :
        NewTexture("AnyFloatingPoint", NoData, NoMipmap, Texture2d(2, 2), "TexImageOnly",
                   "Ok", id)

ReadAny ==
    \E id \in Names : Read(id, 0, 0)

ReadToPixelBufferAny ==
    \E id \in Names : ReadToPixelBuffer(id, 0, 0)

NextDrop ==
    \/ CreateFlat
    \/ Upload
    \/ ReadAny
    \/ ReadToPixelBufferAny
    \/ DropAny
    \/ SelectUnit

SpecDrop ==
    Init /\ [][NextDrop]_vars

(***************************************************************************)
(* SpecFormat: the internal format of textures is asked for, any number of *)
(* times, between the other operations on them.                            *)
(***************************************************************************)
Query ==
    \E id \in Names, answer \in {"Ok", "Err"} : GetInternalFormat(id, answer)

NextFormat ==
    \/ CreateFlat
    \/ Query
    \/ Upload
    \/ DropAny

SpecFormat ==
    Init /\ [][NextFormat]_vars

(***************************************************************************)
(* SpecUpload: one texture of every shape, with and without mipmaps, and   *)
(* one upload_texture on one of its views, from every argument of the      *)
(* bounded sets, on the unit it was created on or on another one.          *)
(***************************************************************************)
UploadContexts ==
    {<<Version("Gl", 2, 0), [NoExtensions EXCEPT !.gl_arb_texture_multisample = TRUE,
                                                 !.gl_ext_framebuffer_object = TRUE]>>,
     <<Version("Gl", 3, 2), NoExtensions>>}

InitUpload ==
    \E c \in UploadContexts : InitContext(c[1], c[2])

CreateForUpload ==
    /\ gl_names = {}
    /\ \E ty \in SampleDimensions,
          mipmaps \in {NoMipmap, AutoGeneratedMipmaps, FixedMipmaps(2)} :
            NewTexture("AnyFloatingPoint", NoData, mipmaps, ty, "TexImageOnly", "Ok", 1)

\* What is wrong with the data of an upload, if anything.
UploadFaults ==
    {<<TRUE, "Ok">>, <<FALSE, "Ok">>, <<TRUE, "Err">>}

UploadOnce ==
    /\ last.op \in {"new_texture", "active_texture"}
    /\ \E layer \in 0 .. 1, level \in 0 .. 1, x_offset \in 0 .. 1, y_offset \in 0 .. 1,
          z_offset \in 0 .. 1, is_client_compressed \in BOOLEAN, fault \in UploadFaults,
          width \in 1 .. 2, height \in {None, 2}, depth \in {None},
          regen_mipmaps \in BOOLEAN :
            UploadTexture(1, layer, level, x_offset, y_offset, z_offset,
                          is_client_compressed, fault[1], width, height, depth,
                          regen_mipmaps, fault[2])

NextUpload ==
    \/ CreateForUpload
    \/ SelectUnit
    \/ UploadOnce

SpecUpload ==
    InitUpload /\ [][NextUpload]_vars

(***************************************************************************)
(* SpecDownload: download_compressed_data on the views of one texture,     *)
(* into buffers at every address up to MaxAddr, on a context whose pack    *)
(* alignment the rest of the library has left at 1, 2, 4 or 8.             *)
(***************************************************************************)
PackAlignments ==
    {1, 2, 4, 8}

InitDownload ==
    \E pack \in PackAlignments : InitContextPacked(Version("Gl", 3, 2), NoExtensions, pack)

CreateForDownload ==
    /\ gl_names = {}
    /\ \E ty \in SampleDimensions, mipmaps \in {NoMipmap, FixedMipmaps(2)} :
            NewTexture("AnyCompressed", NoData, mipmaps, ty, "TexImageOnly", "Ok", 1)

\* The driver's answers: not compressed, compressed in a format that
\* from_internal_compressed_format does not know, or in one it knows.
DownloadAnswers ==
    {<<FALSE, FALSE>>, <<TRUE, FALSE>>, <<TRUE, TRUE>>}

DownloadAny ==
    \E level \in 0 .. 1, answer \in DownloadAnswers, ptr \in 1 .. MaxAddr :
        DownloadCompressedData(1, 0, level, answer[1], answer[2], ptr)

NextDownload ==
    \/ CreateForDownload
    \/ DownloadAny
    \/ SelectUnit

SpecDownload ==
    InitDownload /\ [][NextDownload]_vars

(***************************************************************************)
(* The properties.                                                         *)
(***************************************************************************)
RECURSIVE shr(_, _)
shr(n, k) ==
    IF k = 0 THEN n ELSE shr(n \div 2, k - 1)

HeightKinds ==
    {"Texture2d", "Texture2dArray", "Texture2dMultisample", "Texture2dMultisampleArray",
     "Texture3d"}

ArrayKinds ==
    {"Texture1dArray", "Texture2dArray", "Texture2dMultisampleArray"}

MultisampleKinds ==
    {"Texture2dMultisample", "Texture2dMultisampleArray"}

ArraySizeOr1(ty) ==
    IF ty.kind \in ArrayKinds THEN ty.array_size ELSE 1

LevelExtent(extent, level) ==
    IF shr(extent, level) >= 1 THEN shr(extent, level) ELSE 1

\* C1: mipmap(layer, level) returns no view exactly when layer >= array size
\* (1 for shapes that are no arrays) or level >= levels; the view it returns
\* otherwise has width max(1, width >> level), height and depth
\* max(1, extent >> level) on the shapes that have the axis, and no height or
\* depth on the shapes that lack it.
C1_MipmapView ==
    last.op = "mipmap" =>
        LET t == textures[last.args.id]
            v == last.args.view
            layer == last.args.layer
            level == last.args.level
        IN  /\ ~v.some <=> (layer >= ArraySizeOr1(t.ty) \/ level >= t.levels)
            /\ (last.result = "None") <=> ~v.some
            /\ v.some =>
                 /\ v.layer = layer /\ v.level = level /\ v.texture = t.id
                 /\ v.width = LevelExtent(t.ty.width, level)
                 /\ v.height = IF t.ty.kind \in HeightKinds
                               THEN LevelExtent(t.ty.height, level) ELSE None
                 /\ v.depth = IF t.ty.kind = "Texture3d"
                              THEN LevelExtent(t.ty.depth, level) ELSE None

\* A view of a level above 0 of an array texture whose height is clamped to 1.
C1_Witness ==
    /\ last.op = "mipmap"
    /\ last.args.view.some
    /\ last.args.level = 2
    /\ last.args.layer = 1
    /\ textures[last.args.id].ty.kind = "Texture2dArray"
    /\ textures[last.args.id].ty.height = 3
    /\ last.args.view.height = 1
    /\ last.args.view.depth = None

CallNames(calls) ==
    {calls[i].name : i \in DOMAIN calls}

SubImageCalls ==
    {"TexSubImage1D", "TexSubImage2D", "TexSubImage3D", "CompressedTexSubImage1D",
     "CompressedTexSubImage2D", "CompressedTexSubImage3D"}

ImageCalls ==
    {"TexImage1D", "TexImage2D", "TexImage3D", "CompressedTexImage1D",
     "CompressedTexImage2D", "CompressedTexImage3D"}

StorageCalls ==
    {"TexStorage1D", "TexStorage2D", "TexStorage3D", "TexStorage2DMultisample",
     "TexStorage3DMultisample", "TexImage2DMultisample", "TexImage3DMultisample"}

GenerateMipmapCalls ==
    {"GenerateMipmap", "GenerateMipmapEXT"}

\* C2: upload_texture with regen_mipmaps = true on a view of a level other
\* than 0 is always rejected: it does not succeed and issues no sub-image
\* upload, whatever the level count, the auto-mipmap flag of the texture and
\* the client format.
C2_RegenerateAboveLevel0Rejected ==
    (last.op = "upload_texture" /\ last.args.regen_mipmaps /\ last.args.view.level # 0) =>
        /\ last.result # "Ok"
        /\ CallNames(last.calls) \cap SubImageCalls = {}

\* The context as InitContext leaves it: nothing generated, bound or set.
Pristine ==
    /\ gl_names = {}
    /\ gl_bound = [u \in Units |-> [t \in Targets |-> 0]]
    /\ texture_units = [u \in Units |-> 0]
    /\ pixel_store_unpack_alignment = 4
    /\ pixel_store_pack_alignment = 4
    /\ gl_pack_alignment = 4
    /\ framebuffers = {}

\* C3: new_texture with a multisample shape and initial data does not
\* succeed, and when it aborts it has issued no driver call: no name is
\* generated, nothing is bound, no driver or shadow state has changed.
C3_MultisampleDataAbortsBeforeDriver ==
    (/\ last.op = "new_texture"
     /\ last.args.ty.kind \in MultisampleKinds
     /\ last.args.data.present) =>
        /\ last.result # "Ok"
        /\ last.result = "panic" => (last.calls = <<>> /\ Pristine)

HasZeroAxis(ty) ==
    \/ ty.width = 0
    \/ ty.kind \in HeightKinds /\ ty.height = 0
    \/ ty.kind = "Texture3d" /\ ty.depth = 0
    \/ ty.kind \in ArrayKinds /\ ty.array_size = 0

\* C4: new_texture with an axis equal to 0 succeeds on every driver version
\* and capability set (here: for requests without data, of a shape without
\* samples, with no mipmap generation and a format the driver negotiates),
\* the texture reports the axis as 0, and every call gets a null data
\* pointer.
C4_ZeroAxisSucceeds ==
    (/\ last.op = "new_texture"
     /\ HasZeroAxis(last.args.ty)
     /\ ~last.args.data.present
     /\ last.args.ty.kind \notin MultisampleKinds
     /\ last.args.mipmaps.policy # "auto"
     /\ last.args.negotiated # "Err") =>
        /\ last.result = "Ok"
        /\ textures[1].ty = last.args.ty
        /\ \A i \in DOMAIN last.calls : last.calls[i].data \in {"na", "null"}

CreationErrors ==
    {"DimensionsNotSupported", "FormatNotSupported"}

\* C5: a new_texture that returns DimensionsNotSupported or
\* FormatNotSupported has issued no driver call and changed neither the
\* driver's state nor the shadow state; a call that has generated a texture
\* name returns neither error.
C5_ErrorsBeforeAnyHandle ==
    [][last'.op = "new_texture" =>
          /\ last'.result \in CreationErrors =>
                /\ last'.calls = <<>>
                /\ UNCHANGED <<gl_names, gl_bound, gl_pack_alignment, texture_units, textures,
                               pixel_store_unpack_alignment, pixel_store_pack_alignment,
                               active_texture, framebuffers, format_queries>>
          /\ "GenTextures" \in CallNames(last'.calls) =>
                last'.result \notin CreationErrors]_vars

\* A creation with data whose client format the driver does not take.
C5_Witness ==
    /\ last.op = "new_texture"
    /\ last.result = "FormatNotSupported"
    /\ last.args.data.present
    /\ last.args.negotiated # "Err"
    /\ last.args.ty.kind = "Texture3d"
    /\ last.args.ty.width = 3
    /\ Pristine

\* C6: get_internal_format queries the driver at most once per texture; the
\* first call stores the outcome, success or error, and every later call
\* returns the stored outcome without a query: the cache goes from
\* not-queried to queried and never back or to another value.
C6_FormatMemoized ==
    /\ [](\A id \in Names : format_queries[id] <= 1)
    /\ [][\A id \in Names :
            /\ (Live(id) /\ textures[id].actual_format # "None" /\ textures'[id] # NoTexture
                /\ ~(last'.op = "new_texture" /\ last'.args.id = id)) =>
                    textures'[id].actual_format = textures[id].actual_format
            /\ (last'.op = "get_internal_format" /\ last'.args.id = id) =>
                    IF textures[id].actual_format # "None"
                    THEN /\ last'.calls = <<>>
                         /\ last'.result = textures[id].actual_format
                    ELSE /\ Len(last'.calls) = 1
                         /\ last'.result \in {"Ok", "Err"}
                         /\ textures'[id].actual_format = last'.result]_vars

\* A second call that returns the stored error without a query.
C6_Witness ==
    /\ last.op = "get_internal_format"
    /\ last.calls = <<>>
    /\ last.result = "Err"
    /\ textures[last.args.id].actual_format = "Err"
    /\ format_queries[last.args.id] = 1

PowersOfTwo ==
    {1, 2, 4, 8, 16}

AllExtentsPowersOfTwo(ty) ==
    /\ ty.width \in PowersOfTwo
    /\ ty.kind \in HeightKinds => ty.height \in PowersOfTwo
    /\ ty.kind = "Texture3d" => ty.depth \in PowersOfTwo
    /\ ty.kind \in ArrayKinds => ty.array_size \in PowersOfTwo

NonPowerOfTwoSupported ==
    \/ version[2] >= 2
    \/ extensions.gl_arb_texture_non_power_of_two

\* C7: when every extent of the request is a power of two, or the driver
\* supports other extents (version 2.0 or above, or the extension),
\* new_texture does not return DimensionsNotSupported.
C7_NoDimensionsErrorWhenSupported ==
    (last.op = "new_texture"
     /\ (AllExtentsPowersOfTwo(last.args.ty) \/ NonPowerOfTwoSupported)) =>
        last.result # "DimensionsNotSupported"

\* Extents of 3 are accepted on OpenGL 1.1 with the extension.
C7_Witness ==
    /\ last.op = "new_texture"
    /\ version = Version("Gl", 1, 1)
    /\ extensions.gl_arb_texture_non_power_of_two
    /\ last.args.ty = Texture2d(3, 3)
    /\ last.result = "Ok"

GenerateMipmapCount(calls) ==
    Cardinality({i \in DOMAIN calls : calls[i].name \in GenerateMipmapCalls})

\* C8: new_texture does not call the driver's mipmap generation when the
\* requested format is a depth or depth-stencil format, whatever the mipmap
\* policy; for the other formats with policy auto it calls it exactly once,
\* after the allocation and upload calls.
C8_NoMipmapGenerationForDepth ==
    last.op = "new_texture" =>
        /\ last.args.format \in DepthRequests \cup DepthStencilRequests =>
               GenerateMipmapCount(last.calls) = 0
        /\ (/\ last.args.format \notin DepthRequests \cup DepthStencilRequests
            /\ last.args.mipmaps.policy = "auto"
            /\ last.result = "Ok") =>
               /\ GenerateMipmapCount(last.calls) = 1
               /\ last.calls[Len(last.calls)].name \in GenerateMipmapCalls

DropCalls(id) ==
    {<<PurgeTexture(id, p), ResetBindings(id, r), DeleteTextures(id)>> :
        p \in 0 .. 1, r \in 0 .. NumUnits}

\* C9: a drop purges the handle from the framebuffer attachments, then
\* resets every texture-unit slot that holds it, of every unit, then deletes
\* the handle, once and in this order; afterwards, and in every state that
\* creations, binds, uploads, reads and drops of several textures lead to,
\* no texture-unit slot and no framebuffer attachment refers to a handle
\* that is deleted.
C9_DropOrderNoDanglingHandle ==
    /\ \A u \in Units : texture_units[u] \in {0} \cup gl_names
    /\ framebuffers \subseteq gl_names
    /\ \A id \in Names : Live(id) <=> id \in gl_names
    /\ last.op = "drop" =>
          /\ last.calls \in DropCalls(last.args.id)
          /\ last.args.id \notin gl_names
          /\ last.args.id \notin framebuffers
          /\ \A u \in Units : texture_units[u] # last.args.id
          /\ \A u \in Units : \A t \in Targets : gl_bound[u][t] # last.args.id

\* The drop of a texture that a framebuffer was attached to and whose
\* handle was in the slot of every unit, while another texture lives.
C9_Witness ==
    /\ last.op = "drop"
    /\ last.calls[1].count = 1
    /\ last.calls[2].count = NumUnits
    /\ \E id \in Names : Live(id) /\ id \in framebuffers

BindCalls(calls) ==
    {i \in DOMAIN calls : calls[i].name = "BindTexture"}

\* C10: the shadow of the bound texture agrees with the driver: a bind call
\* of an operation leaves the bound handle in the shadow of the active unit;
\* a successful new_texture leaves the new handle bound at its bind point
\* and in the shadow; and a slot of the shadow that holds the handle of a
\* live texture is the slot of a unit where the driver has that texture
\* bound at its bind point, so that a bind_to_current that skips the bind
\* finds the texture bound.
C10_ShadowConsistent ==
    /\ \A i \in BindCalls(last.calls) : texture_units[active_texture] = last.calls[i].id
    /\ (last.op = "new_texture" /\ last.result = "Ok") =>
          /\ texture_units[active_texture] = last.args.id
          /\ gl_bound[active_texture][get_bind_point(last.args.ty)] = last.args.id
    /\ \A id \in Names : \A u \in Units :
          (Live(id) /\ texture_units[u] = id) =>
              gl_bound[u][get_bind_point(textures[id].ty)] = id
    /\ (/\ last.op \in {"upload_texture", "download_compressed_data"}
        /\ last.calls # <<>>
        /\ BindCalls(last.calls) = {}) =>
          /\ texture_units[active_texture] = last.args.id
          /\ gl_bound[active_texture][get_bind_point(textures[last.args.id].ty)] =
                last.args.id

\* An upload that skips the bind, on a unit where a texture of another
\* bind point is bound as well.
C10_Witness ==
    /\ last.op = "upload_texture"
    /\ last.result = "Ok"
    /\ BindCalls(last.calls) = {}
    /\ \E other \in Names :
          /\ other # last.args.id
          /\ Live(other)
          /\ gl_bound[active_texture]["TEXTURE_3D"] = other
    /\ gl_bound[active_texture]["TEXTURE_2D"] = last.args.id

NoUploadKinds ==
    {"Texture1d", "Texture2dArray", "Texture3d", "Texture2dMultisample",
     "Texture2dMultisampleArray"}

\* C11: upload_texture on a view of a Texture3d, Texture2dArray, Texture1d or
\* multisample texture never returns success and issues neither a sub-image
\* upload nor a mipmap regeneration: it fails.
C11_UnimplementedUploadFails ==
    (last.op = "upload_texture"
     /\ textures[last.args.id].ty.kind \in NoUploadKinds) =>
        /\ last.result \in {"panic", "Err"}
        /\ CallNames(last.calls) \cap (SubImageCalls \cup ImageCalls) = {}
        /\ CallNames(last.calls) \cap GenerateMipmapCalls = {}

\* An upload on a Texture3d whose arguments pass every assert and that
\* reaches the branch of its bind point, with regeneration asked for.
C11_Witness ==
    /\ last.op = "upload_texture"
    /\ textures[last.args.id].ty.kind = "Texture3d"
    /\ textures[last.args.id].generate_mipmaps
    /\ last.args.regen_mipmaps
    /\ last.result = "panic"
    /\ "BindTexture" \in CallNames(last.calls)

BelowGl20WithoutExtension ==
    /\ version[1] = "Gl"
    /\ version[2] < 2
    /\ ~extensions.gl_arb_texture_non_power_of_two

\* The extents of the axes the shape has.
ExtentsOf(ty) ==
    {ty.width}
    \cup (IF ty.kind \in HeightKinds THEN {ty.height} ELSE {})
    \cup (IF ty.kind = "Texture3d" THEN {ty.depth} ELSE {})
    \cup (IF ty.kind \in ArrayKinds THEN {ty.array_size} ELSE {})

\* C12: on a driver below version 2.0 without the non-power-of-two
\* extension, new_texture (given data of the right size, if any) fails with
\* DimensionsNotSupported exactly when an extent that is not 0 is not a
\* power of two; extents of 0 and the axes the shape lacks do not make it
\* fail.
C12_NonPowerOfTwoRule ==
    (/\ last.op = "new_texture"
     /\ BelowGl20WithoutExtension
     /\ last.args.data.present => last.args.data.size_ok) =>
        (last.result = "DimensionsNotSupported"
            <=> \E e \in ExtentsOf(last.args.ty) : e # 0 /\ e \notin PowersOfTwo)

PlainStorageCalls ==
    {"TexStorage1D", "TexStorage2D", "TexStorage3D"}

CallsNamed(calls, names) ==
    {i \in DOMAIN calls : calls[i].name \in names}

StorageAllocationAvailable ==
    \/ version[1] = "Gl" /\ (version[2] > 4 \/ (version[2] = 4 /\ version[3] >= 2))
    \/ extensions.gl_arb_texture_storage

\* C13: a new_texture of a shape without samples that reaches its allocation
\* takes the storage path exactly when the driver has storage allocation
\* (version 4.2 or the extension) and the negotiator returned a storage
\* format: one storage call for the whole level count, then one sub-upload
\* of level 0 exactly when there is data and no axis is 0; otherwise one
\* image call of level 0 and no storage call. No creation mixes the two, and
\* no level but 0 is uploaded or allocated by an image call.
C13_StorageOrLegacyPath ==
    (/\ last.op = "new_texture"
     /\ last.args.ty.kind \notin MultisampleKinds
     /\ "GenTextures" \in CallNames(last.calls)) =>
        LET storage == CallsNamed(last.calls, PlainStorageCalls)
            image == CallsNamed(last.calls, ImageCalls)
            sub == CallsNamed(last.calls, SubImageCalls)
        IN  /\ CallNames(last.calls) \cap (StorageCalls \ PlainStorageCalls) = {}
            /\ \A i \in image \cup sub : last.calls[i].level = 0
            /\ IF StorageAllocationAvailable /\ last.args.negotiated = "WithStorage"
               THEN /\ Cardinality(storage) = 1
                    /\ image = {}
                    /\ last.result = "Ok" =>
                          \A i \in storage : last.calls[i].levels = textures[1].levels
                    /\ Cardinality(sub) =
                          IF last.args.data.present /\ 0 \notin ExtentsOf(last.args.ty)
                          THEN 1 ELSE 0
                    /\ \A i \in storage : \A j \in sub : i < j
               ELSE /\ Cardinality(image) = 1
                    /\ storage = {}
                    /\ sub = {}

\* A creation with data on the storage path, with several levels.
C13_Witness ==
    /\ last.op = "new_texture"
    /\ last.result = "Ok"
    /\ last.args.ty = Texture2dArray(2, 3, 1)
    /\ last.args.data.present
    /\ textures[1].levels = MaxLevels
    /\ "TexStorage3D" \in CallNames(last.calls)
    /\ "TexSubImage3D" \in CallNames(last.calls)

AllocationCalls ==
    StorageCalls \cup ImageCalls

Calls2D ==
    {"TexStorage2D", "TexImage2D", "CompressedTexImage2D", "TexStorage2DMultisample",
     "TexImage2DMultisample"}

Calls3D ==
    {"TexStorage3D", "TexImage3D", "CompressedTexImage3D", "TexStorage3DMultisample",
     "TexImage3DMultisample"}

\* C14: every extent that new_texture passes to an allocation call, of any
\* shape and on the storage, the image and the multisample entry points, is
\* at least 1, an axis of size 0 being passed as 1; and when an axis is 0
\* every data pointer passed to the driver is null.
C14_AllocationExtentsAtLeast1 ==
    last.op = "new_texture" =>
        /\ \A i \in CallsNamed(last.calls, AllocationCalls) :
              /\ last.calls[i].width >= 1
              /\ last.calls[i].name \in Calls2D \cup Calls3D => last.calls[i].height >= 1
              /\ last.calls[i].name \in Calls3D => last.calls[i].depth >= 1
        /\ HasZeroAxis(last.args.ty) =>
              \A i \in DOMAIN last.calls : last.calls[i].data \in {"na", "null"}

RegenerationDue ==
    /\ last.args.regen_mipmaps
    /\ textures[last.args.id].levels >= 2
    /\ textures[last.args.id].generate_mipmaps
    /\ ~last.args.is_client_compressed

OptionOr1(opt) ==
    IF opt = None THEN 1 ELSE opt

\* An upload whose shape has a sub-upload path and whose region, data and
\* client format are in order.
UploadInOrder ==
    /\ textures[last.args.id].ty.kind \in {"Texture2d", "Texture1dArray"}
    /\ last.args.x_offset + last.args.width <= last.args.view.width
    /\ last.args.y_offset + OptionOr1(last.args.height) <= OptionOr1(last.args.view.height)
    /\ last.args.z_offset = 0
    /\ OptionOr1(last.args.depth) <= OptionOr1(last.args.view.depth)
    /\ last.args.size_ok
    /\ last.args.client_negotiated = "Ok"

C16_PackAlignmentDividesAddress ==
    /\ pixel_store_pack_alignment = gl_pack_alignment
    /\ (last.op = "download_compressed_data"
        /\ "GetCompressedTexImage" \in CallNames(last.calls)) =>
          /\ last.calls[Len(last.calls)].name = "GetCompressedTexImage"
          /\ gl_pack_alignment \in PackAlignments
          /\ last.args.ptr % gl_pack_alignment = 0

\* A read into a buffer at address 4 for which the alignment went from 4 to
\* 2.
C16_Witness ==
    /\ last.op = "download_compressed_data"
    /\ last.result = "Some"
    /\ last.args.ptr = 4
    /\ gl_pack_alignment = 2
    /\ PixelStorei("PACK_ALIGNMENT", 2) \in {last.calls[i] : i \in DOMAIN last.calls}

\* C17: a successful upload_texture through the view mipmap(layer, level)
\* writes into the slice (layer, level) of that view only: its sub-image
\* call is made on the texture's bind point for the level of the view, and
\* on a Texture1dArray, where the driver's y coordinate is the layer, for the
\* one row that is the layer of the view.
C17_UploadTargetsViewSlice ==
    (last.op = "upload_texture" /\ last.result = "Ok") =>
        /\ CallsNamed(last.calls, SubImageCalls) # {}
        /\ \A i \in CallsNamed(last.calls, SubImageCalls) :
              /\ last.calls[i].target = get_bind_point(textures[last.args.id].ty)
              /\ last.calls[i].level = last.args.view.level
              /\ textures[last.args.id].ty.kind = "Texture1dArray" =>
                    /\ last.calls[i].yoffset = last.args.view.layer
                    /\ last.calls[i].height = 1

====
